---- MODULE Spec2Model ----
(***************************************************************************)
(* Board simulation engine of the match-three game                         *)
(* (client/src/lib/gameLogic.ts).                                          *)
(*                                                                         *)
(* Pieces are JavaScript objects: a grid cell holds a reference to a       *)
(* piece, and two grids may hold references to the same piece.  The model  *)
(* keeps the objects in `heap` (a reference is an index into it) and a     *)
(* grid is a function row -> col -> reference, rows and columns numbered   *)
(* from 0 as in the source.  Grids themselves are values: every function   *)
(* that returns a grid first copies the row arrays                         *)
(* (board.map(row => [...row])) and writes only to the copy.               *)
(*                                                                         *)
(* Math.random() is modelled by a draw u in 0..RandLevels-1 standing for   *)
(* the value u / RandLevels; a call that generates k pieces reads a tape   *)
(* of k draws.  The `${Date.now()}-${Math.random()}` suffix of a piece id  *)
(* is a stamp [now, random]: the clock reading and a second draw, which    *)
(* is a number of its own range (the id prints every digit of it).         *)
(***************************************************************************)
EXTENDS Integers, Sequences, FiniteSets, TLC

\* Side of the square grid (the game uses 7..10).
GridSize == 4

\* How many draws of one run may leave the lowest bucket of Math.random().
MaxDraws == 1

PIECE_TYPES == <<"red", "yellow", "blue", "pink", "purple", "orange">>

\* Resolution of the modelled Math.random(): with one bucket per piece type
\* every index of every candidate list (length 1..6) can be drawn.
RandLevels == Len(PIECE_TYPES)

VARIABLES
  heap,     \* the piece objects, in allocation order
  board,    \* the grid returned by the last call
  pc,       \* where the caller is
  calls,    \* the last two calls: operation, arguments, input grid, heap before
  matched,  \* the last result of findMatches
  groups,   \* the last result of findMatchPositions
  adjacent, \* the last result of areAdjacent
  draws,    \* draws so far that left the lowest bucket
  game,     \* the Game component: gameState without its board, and the refs
  timers,   \* the Game component's pending timeouts
  event     \* the event the Game component handled last

vars == <<heap, board, pc, calls, matched, groups, adjacent, draws,
          game, timers, event>>

\* The Game component's variables, which the engine's callers leave alone.
gameVars == <<game, timers, event>>

----------------------------------------------------------------------------
(* Helpers of the model *)

Range(s) == {s[i] : i \in DOMAIN s}

Rows(gridSize) == 0 .. (gridSize - 1)

Pos(r, c) == [row |-> r, col |-> c]

Cells(gridSize) == {Pos(r, c) : r \in Rows(gridSize), c \in Rows(gridSize)}

Abs(x) == IF x < 0 THEN -x ELSE x

EmptyBoard(gridSize) == [r \in Rows(gridSize) |-> [c \in Rows(gridSize) |-> 0]]

\* The tapes of n draws of which at most k leave the lowest bucket.
RECURSIVE Tapes(_, _)
Tapes(n, k) ==
  IF k <= 0 \/ n = 0 THEN {[i \in 1 .. n |-> 0]}
  ELSE LET fewer == Tapes(n, k - 1)
       IN  fewer \cup {[t EXCEPT ![p] = v] :
                         t \in fewer, p \in 1 .. n, v \in 1 .. (RandLevels - 1)}

NonZero(tape) == Cardinality({i \in DOMAIN tape : tape[i] # 0})

\* What a call that generates Len(tape) pieces reads when the clock stands at
\* 0 and no draw made for an id repeats an earlier one: the type draws of
\* `tape`, each with a stamp whose draw is the allocation number of the piece.
Stamped(h, tape) ==
  [i \in DOMAIN tape |->
     [u |-> tape[i], stamp |-> [now |-> 0, random |-> Len(h) + i]]]

\* Math.floor(Math.random() * len)
RandomIndex(u, len) == (u * len) \div RandLevels

----------------------------------------------------------------------------
(* gameLogic.ts *)

\* generateRandomPiece drawing from all types whatever is excluded.
GenerateRandomPieceNoFilter(row, col, excludeTypes, u, stamp) ==
  [id |-> <<row, col, stamp.now, stamp.random>>,
   type |-> PIECE_TYPES[RandomIndex(u, Len(PIECE_TYPES)) + 1],
   row |-> row, col |-> col]

GenerateRandomPiece(row, col, excludeTypes, u, stamp) ==
  LET availableTypes ==
        SelectSeq(PIECE_TYPES, LAMBDA t : t \notin Range(excludeTypes))
      type ==
        IF Len(availableTypes) > 0
        THEN availableTypes[RandomIndex(u, Len(availableTypes)) + 1]
        ELSE PIECE_TYPES[RandomIndex(u, Len(PIECE_TYPES)) + 1]
  IN  [id |-> <<row, col, stamp.now, stamp.random>>,
       type |-> type, row |-> row, col |-> col]

\* initializeBoard without its vertical check.
InitForbiddenTypesLeftOnly(h, b, row, col) ==
  IF col >= 2 /\ h[b[row][col - 1]].type = h[b[row][col - 2]].type
  THEN <<h[b[row][col - 1]].type>> ELSE <<>>

\* The forbiddenTypes array initializeBoard builds for cell (row, col).
InitForbiddenTypes(h, b, row, col) ==
  LET left ==
        IF col >= 2 /\ h[b[row][col - 1]].type = h[b[row][col - 2]].type
        THEN <<h[b[row][col - 1]].type>> ELSE <<>>
      above ==
        IF row >= 2 /\ h[b[row - 1][col]].type = h[b[row - 2][col]].type
        THEN <<h[b[row - 1][col]].type>> ELSE <<>>
  IN  left \o above

\* The two nested loops of initializeBoard from cell number k on (row-major).
RECURSIVE InitCells(_, _, _, _)
InitCells(k, gridSize, tape, st) ==
  IF k >= gridSize * gridSize THEN st
  ELSE LET row == k \div gridSize
           col == k % gridSize
           ref == Len(st.heap) + 1
           piece == GenerateRandomPiece(row, col,
                      InitForbiddenTypes(st.heap, st.board, row, col),
                      tape[k + 1].u, tape[k + 1].stamp)
       IN  InitCells(k + 1, gridSize, tape,
             [heap |-> Append(st.heap, piece),
              board |-> [st.board EXCEPT ![row][col] = ref]])

InitializeBoard(h, gridSize, tape) ==
  InitCells(0, gridSize, tape, [heap |-> h, board |-> EmptyBoard(gridSize)])

\* areAdjacent that takes a diagonal neighbour for an adjacent cell.
AreAdjacentWithDiagonals(pos1, pos2) ==
  LET rowDiff == Abs(pos1.row - pos2.row)
      colDiff == Abs(pos1.col - pos2.col)
  IN  rowDiff <= 1 /\ colDiff <= 1 /\ rowDiff + colDiff > 0

\* areAdjacent without Math.abs.
AreAdjacentNoAbs(pos1, pos2) ==
  LET rowDiff == pos1.row - pos2.row
      colDiff == pos1.col - pos2.col
  IN  (rowDiff = 1 /\ colDiff = 0) \/ (rowDiff = 0 /\ colDiff = 1)

AreAdjacent(pos1, pos2) ==
  LET rowDiff == Abs(pos1.row - pos2.row)
      colDiff == Abs(pos1.col - pos2.col)
  IN  (rowDiff = 1 /\ colDiff = 0) \/ (rowDiff = 0 /\ colDiff = 1)

\* swapPieces updating the position of the piece at pos1 only.
SwapUpdateFirstOnly(h, newBoard, pos1, pos2) ==
  LET p1 == newBoard[pos1.row][pos1.col]
  IN  [h EXCEPT ![p1].row = pos1.row, ![p1].col = pos1.col]

\* The four assignments under "Update positions": the pieces are the objects
\* the input grid refers to as well.
SwapUpdatePositions(h, newBoard, pos1, pos2) ==
  LET p1 == newBoard[pos1.row][pos1.col]
      h1 == [h EXCEPT ![p1].row = pos1.row, ![p1].col = pos1.col]
      p2 == newBoard[pos2.row][pos2.col]
  IN  [h1 EXCEPT ![p2].row = pos2.row, ![p2].col = pos2.col]

\* swapPieces without the temporary: pos2 is written from the cell already
\* overwritten.
SwapPiecesNoTemp(h, b, pos1, pos2) ==
  LET b1 == [b EXCEPT ![pos1.row][pos1.col] = b[pos2.row][pos2.col]]
      newBoard == [b1 EXCEPT ![pos2.row][pos2.col] = b1[pos1.row][pos1.col]]
  IN  [heap |-> SwapUpdatePositions(h, newBoard, pos1, pos2),
       board |-> newBoard]

SwapPieces(h, b, pos1, pos2) ==
  LET temp == b[pos1.row][pos1.col]
      b1 == [b EXCEPT ![pos1.row][pos1.col] = b[pos2.row][pos2.col]]
      newBoard == [b1 EXCEPT ![pos2.row][pos2.col] = temp]
  IN  [heap |-> SwapUpdatePositions(h, newBoard, pos1, pos2),
       board |-> newBoard]

BoardSize(b) == Cardinality(DOMAIN b)

TypeAt(h, b, r, c) == h[b[r][c]].type

IdAt(h, b, r, c) == h[b[r][c]].id

\* current.type === next1.type && next1.type === next2.type, horizontally
HTriple(h, b, row, col) ==
  /\ TypeAt(h, b, row, col) = TypeAt(h, b, row, col + 1)
  /\ TypeAt(h, b, row, col + 1) = TypeAt(h, b, row, col + 2)

\* the same, vertically
VTriple(h, b, row, col) ==
  /\ TypeAt(h, b, row, col) = TypeAt(h, b, row + 1, col)
  /\ TypeAt(h, b, row + 1, col) = TypeAt(h, b, row + 2, col)

\* findMatches without its vertical pass.
FindMatchesHorizontalOnly(h, b) ==
  UNION {IF HTriple(h, b, row, col)
         THEN {IdAt(h, b, row, col), IdAt(h, b, row, col + 1),
               IdAt(h, b, row, col + 2)}
         ELSE {} : row \in 0 .. (BoardSize(b) - 1), col \in 0 .. (BoardSize(b) - 3)}

FindMatches(h, b) ==
  LET gridSize == BoardSize(b)
      horizontal ==
        UNION {IF HTriple(h, b, row, col)
               THEN {IdAt(h, b, row, col), IdAt(h, b, row, col + 1),
                     IdAt(h, b, row, col + 2)}
               ELSE {} : row \in 0 .. (gridSize - 1), col \in 0 .. (gridSize - 3)}
      vertical ==
        UNION {IF VTriple(h, b, row, col)
               THEN {IdAt(h, b, row, col), IdAt(h, b, row + 1, col),
                     IdAt(h, b, row + 2, col)}
               ELSE {} : col \in 0 .. (gridSize - 1), row \in 0 .. (gridSize - 3)}
  IN  horizontal \cup vertical

\* getCenter: the averages, kept as exact fractions sum / count.
GetCenter(positions) ==
  LET RECURSIVE Sum(_, _)
      Sum(i, rowOrCol) ==
        IF i > Len(positions) THEN 0
        ELSE (IF rowOrCol = "row" THEN positions[i].row ELSE positions[i].col)
             + Sum(i + 1, rowOrCol)
  IN  [centerRow |-> [num |-> Sum(1, "row"), den |-> Len(positions)],
       centerCol |-> [num |-> Sum(1, "col"), den |-> Len(positions)]]

MatchGroup(positions) ==
  [positions |-> positions,
   centerRow |-> GetCenter(positions).centerRow,
   centerCol |-> GetCenter(positions).centerCol,
   pieceCount |-> Len(positions)]

\* while (c < gridSize && board[row][c].type === current.type) positions.push(...)
RECURSIVE HExtent(_, _, _, _, _)
HExtent(h, b, row, c, type) ==
  IF c < BoardSize(b) /\ TypeAt(h, b, row, c) = type
  THEN <<Pos(row, c)>> \o HExtent(h, b, row, c + 1, type)
  ELSE <<>>

\* while (r < gridSize && board[r][col].type === current.type) positions.push(...)
RECURSIVE VExtent(_, _, _, _, _)
VExtent(h, b, r, col, type) ==
  IF r < BoardSize(b) /\ TypeAt(h, b, r, col) = type
  THEN <<Pos(r, col)>> \o VExtent(h, b, r + 1, col, type)
  ELSE <<>>

\* A run key that leaves the column out.
GroupKeyWithoutCol(orientation, row, col) == <<orientation, row>>

\* The key under which a window that matched is remembered in processedIds.
GroupKey(orientation, row, col) == <<orientation, row, col>>

\* One iteration of the horizontal double loop, at window (row, col).
HWindow(h, b, row, col, acc) ==
  IF HTriple(h, b, row, col) /\ GroupKey("h", row, col) \notin acc.processedIds
  THEN [processedIds |-> acc.processedIds \cup {GroupKey("h", row, col)},
        matchGroups |-> Append(acc.matchGroups,
           MatchGroup(HExtent(h, b, row, col, TypeAt(h, b, row, col))))]
  ELSE acc

\* One iteration of the vertical double loop, at window (row, col).
VWindow(h, b, row, col, acc) ==
  IF VTriple(h, b, row, col) /\ GroupKey("v", row, col) \notin acc.processedIds
  THEN [processedIds |-> acc.processedIds \cup {GroupKey("v", row, col)},
        matchGroups |-> Append(acc.matchGroups,
           MatchGroup(VExtent(h, b, row, col, TypeAt(h, b, row, col))))]
  ELSE acc

\* for row in 0..gridSize-1, for col in 0..gridSize-3, from window number k on
RECURSIVE HPass(_, _, _, _)
HPass(h, b, k, acc) ==
  LET width == BoardSize(b) - 2
  IN  IF width <= 0 \/ k >= BoardSize(b) * width THEN acc
      ELSE HPass(h, b, k + 1, HWindow(h, b, k \div width, k % width, acc))

\* for col in 0..gridSize-1, for row in 0..gridSize-3, from window number k on
RECURSIVE VPass(_, _, _, _)
VPass(h, b, k, acc) ==
  LET height == BoardSize(b) - 2
  IN  IF height <= 0 \/ k >= BoardSize(b) * height THEN acc
      ELSE VPass(h, b, k + 1, VWindow(h, b, k % height, k \div height, acc))

FindMatchPositions(h, b) ==
  VPass(h, b, 0,
        HPass(h, b, 0, [processedIds |-> {}, matchGroups |-> <<>>])).matchGroups

\* [...new Set(forbidden)]: the first occurrence of each element, in order
RECURSIVE Dedup(_)
Dedup(s) ==
  IF s = <<>> THEN <<>>
  ELSE LET front == Dedup(SubSeq(s, 1, Len(s) - 1))
           last == s[Len(s)]
       IN  IF last \in Range(front) THEN front ELSE Append(front, last)

\* getForbiddenTypes returning its array as pushed, duplicates included.
GetForbiddenTypesWithDuplicates(h, b, row, col) ==
  LET gridSize == BoardSize(b)
      T(r, c) == TypeAt(h, b, r, c)
      left == IF col >= 2 /\ T(row, col - 1) = T(row, col - 2)
              THEN <<T(row, col - 1)>> ELSE <<>>
      right == IF col <= gridSize - 3 /\ T(row, col + 1) = T(row, col + 2)
               THEN <<T(row, col + 1)>> ELSE <<>>
      hmiddle == IF col >= 1 /\ col <= gridSize - 2
                    /\ T(row, col - 1) = T(row, col + 1)
                 THEN <<T(row, col - 1)>> ELSE <<>>
      above == IF row >= 2 /\ T(row - 1, col) = T(row - 2, col)
               THEN <<T(row - 1, col)>> ELSE <<>>
      below == IF row <= gridSize - 3 /\ T(row + 1, col) = T(row + 2, col)
               THEN <<T(row + 1, col)>> ELSE <<>>
      vmiddle == IF row >= 1 /\ row <= gridSize - 2
                    /\ T(row - 1, col) = T(row + 1, col)
                 THEN <<T(row - 1, col)>> ELSE <<>>
  IN  left \o right \o hmiddle \o above \o below \o vmiddle

\* getForbiddenTypes without the "two pieces below" check.
GetForbiddenTypesNoBelow(h, b, row, col) ==
  LET gridSize == BoardSize(b)
      T(r, c) == TypeAt(h, b, r, c)
      left == IF col >= 2 /\ T(row, col - 1) = T(row, col - 2)
              THEN <<T(row, col - 1)>> ELSE <<>>
      right == IF col <= gridSize - 3 /\ T(row, col + 1) = T(row, col + 2)
               THEN <<T(row, col + 1)>> ELSE <<>>
      hmiddle == IF col >= 1 /\ col <= gridSize - 2
                    /\ T(row, col - 1) = T(row, col + 1)
                 THEN <<T(row, col - 1)>> ELSE <<>>
      above == IF row >= 2 /\ T(row - 1, col) = T(row - 2, col)
               THEN <<T(row - 1, col)>> ELSE <<>>
      vmiddle == IF row >= 1 /\ row <= gridSize - 2
                    /\ T(row - 1, col) = T(row + 1, col)
                 THEN <<T(row - 1, col)>> ELSE <<>>
  IN  Dedup(left \o right \o hmiddle \o above \o vmiddle)

\* Every cell of b refers to a piece, so the truthiness tests
\* (board[row][col - 1] && ...) of the source hold wherever the index
\* tests before them do.
GetForbiddenTypes(h, b, row, col) ==
  LET gridSize == BoardSize(b)
      T(r, c) == TypeAt(h, b, r, c)
      left == IF col >= 2 /\ T(row, col - 1) = T(row, col - 2)
              THEN <<T(row, col - 1)>> ELSE <<>>
      right == IF col <= gridSize - 3 /\ T(row, col + 1) = T(row, col + 2)
               THEN <<T(row, col + 1)>> ELSE <<>>
      hmiddle == IF col >= 1 /\ col <= gridSize - 2
                    /\ T(row, col - 1) = T(row, col + 1)
                 THEN <<T(row, col - 1)>> ELSE <<>>
      above == IF row >= 2 /\ T(row - 1, col) = T(row - 2, col)
               THEN <<T(row - 1, col)>> ELSE <<>>
      below == IF row <= gridSize - 3 /\ T(row + 1, col) = T(row + 2, col)
               THEN <<T(row + 1, col)>> ELSE <<>>
      vmiddle == IF row >= 1 /\ row <= gridSize - 2
                    /\ T(row - 1, col) = T(row + 1, col)
                 THEN <<T(row - 1, col)>> ELSE <<>>
  IN  Dedup(left \o right \o hmiddle \o above \o below \o vmiddle)

\* The compaction loop reading the column from the top.
RECURSIVE CompactFromTop(_, _, _, _)
CompactFromTop(st, matchedIds, col, row) ==
  IF row < 0 THEN st
  ELSE LET r == BoardSize(st.board) - 1 - row
           piece == st.board[r][col]
       IN  IF st.heap[piece].id \notin matchedIds
           THEN CompactFromTop(
                  [st EXCEPT !.board[st.writePos][col] = piece,
                             !.heap[piece].row = st.writePos,
                             !.writePos = st.writePos - 1],
                  matchedIds, col, row - 1)
           ELSE CompactFromTop(st, matchedIds, col, row - 1)

\* The inner loop "for row = gridSize - 1 down to 0" of one column: a piece
\* that stays is written to writePos and its row field is overwritten.
\* st = [heap, board, used, writePos]
RECURSIVE Compact(_, _, _, _)
Compact(st, matchedIds, col, row) ==
  IF row < 0 THEN st
  ELSE LET piece == st.board[row][col]
       IN  IF st.heap[piece].id \notin matchedIds
           THEN Compact(
                  [st EXCEPT !.board[st.writePos][col] = piece,
                             !.heap[piece].row = st.writePos,
                             !.writePos = st.writePos - 1],
                  matchedIds, col, row - 1)
           ELSE Compact(st, matchedIds, col, row - 1)

\* "Fill empty spaces with new pieces": rows writePos down to 0 of one column.
RECURSIVE Refill(_, _, _, _)
Refill(st, tape, col, row) ==
  IF row < 0 THEN st
  ELSE LET forbiddenTypes == GetForbiddenTypes(st.heap, st.board, row, col)
           ref == Len(st.heap) + 1
           piece == GenerateRandomPiece(row, col, forbiddenTypes,
                                        tape[st.used + 1].u,
                                        tape[st.used + 1].stamp)
       IN  Refill([st EXCEPT !.heap = Append(st.heap, piece),
                             !.board[row][col] = ref,
                             !.used = st.used + 1],
                  tape, col, row - 1)

\* The outer loop "for col = 0 .. gridSize - 1", from column col on.
RECURSIVE ResolveColumns(_, _, _, _)
ResolveColumns(st, matchedIds, tape, col) ==
  IF col >= BoardSize(st.board) THEN st
  ELSE LET compacted ==
             Compact([st EXCEPT !.writePos = BoardSize(st.board) - 1],
                     matchedIds, col, BoardSize(st.board) - 1)
       IN  ResolveColumns(Refill(compacted, tape, col, compacted.writePos),
                          matchedIds, tape, col + 1)

RemoveMatchedAndApplyGravity(h, b, matchedIds, tape) ==
  LET st == ResolveColumns([heap |-> h, board |-> b, used |-> 0, writePos |-> 0],
                           matchedIds, tape, 0)
  IN  [heap |-> st.heap, board |-> st.board]

\* How many pieces a call of removeMatchedAndApplyGravity generates.
RefillCount(h, b, matchedIds) ==
  Cardinality({p \in Cells(BoardSize(b)) : IdAt(h, b, p.row, p.col) \in matchedIds})

baseGridSize == 7

baseTimeLimit == 120

baseTargetScore == 1000

Min(a, b) == IF a < b THEN a ELSE b

Max(a, b) == IF a > b THEN a ELSE b

\* getLevelConfig without the cap on the grid size.
GetLevelConfigNoCap(level) ==
  [level |-> level,
   gridSize |-> baseGridSize + (level \div 3),
   timeLimit |-> Max(baseTimeLimit - (level - 1) * 3, 45),
   targetScore |-> baseTargetScore + (level - 1) * 500,
   initialLives |-> 3]

\* Math.floor(level / 3) is level \div 3: both round towards minus infinity.
GetLevelConfig(level) ==
  [level |-> level,
   gridSize |-> Min(baseGridSize + (level \div 3), 10),
   timeLimit |-> Max(baseTimeLimit - (level - 1) * 3, 45),
   targetScore |-> baseTargetScore + (level - 1) * 500,
   initialLives |-> 3]

\* calculateScore with the bonus starting at three pieces.
CalculateScoreBonusFromThree(matchCount) ==
  LET baseScore == 60 + matchCount * 30
      multiplierTimes2 == IF matchCount >= 3 THEN 2 + (matchCount - 2) ELSE 2
  IN  (baseScore * multiplierTimes2) \div 2

\* calculateScore whose multiplier is the bonus alone, without the 1 it adds to.
CalculateScoreBonusOnly(matchCount) ==
  LET baseScore == 60 + matchCount * 30
      multiplierTimes2 == IF matchCount > 3 THEN matchCount - 3 ELSE 2
  IN  (baseScore * multiplierTimes2) \div 2

\* The multiplier 1 + (matchCount - 3) * 0.5 is a multiple of one half, which
\* a double holds exactly, and so is the product: the model keeps twice the
\* multiplier and Math.floor is the division by 2 rounding down.
CalculateScore(matchCount) ==
  LET baseScore == 60 + matchCount * 30
      multiplierTimes2 == IF matchCount > 3 THEN 2 + (matchCount - 3) ELSE 2
  IN  (baseScore * multiplierTimes2) \div 2

\* isLevelComplete that accepts a player without lives.
IsLevelCompleteWithoutLives(score, targetScore, lives) ==
  score >= targetScore /\ lives >= 0

IsLevelComplete(score, targetScore, lives) ==
  score >= targetScore /\ lives > 0

\* isGameOver that lets the last second be played.
IsGameOverAfterLastSecond(lives, timeRemaining) ==
  lives <= 0 \/ timeRemaining < 0

IsGameOver(lives, timeRemaining) ==
  lives <= 0 \/ timeRemaining <= 0

----------------------------------------------------------------------------
(* The caller: generate a board, then call the engine on it *)

\* No Game component is mounted: gameState is null and nothing is pending.
NotMounted ==
  /\ game = [mounted |-> FALSE]
  /\ timers = [mounted |-> FALSE]
  /\ event = [name |-> "none"]

Call(op, pos1, pos2, ids) ==
  [op |-> op, pos1 |-> pos1, pos2 |-> pos2, ids |-> ids,
   board |-> board, heap |-> heap]

NoPos == Pos(-1, -1)

\* The log keeps the last call and the one before it.
Logged(call) == IF calls = <<>> THEN <<call>> ELSE <<calls[Len(calls)], call>>

Init ==
  /\ heap = <<>>
  /\ board = EmptyBoard(GridSize)
  /\ pc = "new"
  /\ calls = <<>>
  /\ matched = {}
  /\ groups = <<>>
  /\ adjacent = FALSE
  /\ draws = 0
  /\ NotMounted

Initialize ==
  /\ pc = "new"
  /\ \E tape \in Tapes(GridSize * GridSize, MaxDraws - draws) :
       LET st == InitializeBoard(heap, GridSize, Stamped(heap, tape))
       IN  /\ heap' = st.heap
           /\ board' = st.board
           /\ draws' = draws + NonZero(tape)
  /\ calls' = Logged(Call("initializeBoard", NoPos, NoPos, {}))
  /\ pc' = "rest"
  /\ UNCHANGED <<matched, groups, adjacent>>
  /\ UNCHANGED gameVars

Last(s) == s[Len(s)]

\* Each pair of adjacent cells once: the second cell is the one to the right
\* of the first or the one below it.
AdjacentPairs ==
  {pq \in Cells(GridSize) \X Cells(GridSize) :
     /\ AreAdjacent(pq[1], pq[2])
     /\ pq[2].row >= pq[1].row
     /\ pq[2].col >= pq[1].col}

\* swapPieces(board, pos1, pos2) for a pair drawn from `pairs`.
SwapCall(pairs, from, to) ==
  /\ pc = from
  /\ \E pq \in pairs :
       LET st == SwapPieces(heap, board, pq[1], pq[2])
       IN  /\ heap' = st.heap
           /\ board' = st.board
           /\ calls' = Logged(Call("swapPieces", pq[1], pq[2], {}))
  /\ pc' = to
  /\ UNCHANGED <<matched, groups, adjacent, draws>>
  /\ UNCHANGED gameVars

\* A player's move: two adjacent cells are exchanged.
Swap == SwapCall(AdjacentPairs, "rest", "swapped")

\* The match check after a move: both detectors read the same board.
CheckMatches ==
  /\ pc = "swapped"
  /\ matched' = FindMatches(heap, board)
  /\ groups' = FindMatchPositions(heap, board)
  /\ calls' = Logged(Call("findMatches", NoPos, NoPos, {}))
  /\ pc' = "checked"
  /\ UNCHANGED <<heap, board, adjacent, draws>>
  /\ UNCHANGED gameVars

\* The removal step that follows a match check that found matches.
Resolve ==
  /\ pc = "checked"
  /\ matched # {}
  /\ \E tape \in Tapes(RefillCount(heap, board, matched), MaxDraws - draws) :
       LET st == RemoveMatchedAndApplyGravity(heap, board, matched,
                                              Stamped(heap, tape))
       IN  /\ heap' = st.heap
           /\ board' = st.board
           /\ draws' = draws + NonZero(tape)
  /\ calls' = Logged(Call("removeMatchedAndApplyGravity", NoPos, NoPos, matched))
  /\ pc' = "resolved"
  /\ UNCHANGED <<matched, groups, adjacent>>
  /\ UNCHANGED gameVars

Next ==
  \/ Initialize
  \/ Swap
  \/ CheckMatches
  \/ Resolve

Spec == Init /\ [][Next]_vars

----------------------------------------------------------------------------
(* The engine's functions called directly, with arguments of any shape, on *)
(* the board generated when every draw falls in the lowest bucket          *)

CallsInit ==
  /\ \E tape \in Tapes(GridSize * GridSize, 0) :
       LET st == InitializeBoard(<<>>, GridSize, Stamped(<<>>, tape))
       IN  /\ heap = st.heap
           /\ board = st.board
  /\ pc = "rest"
  /\ calls = <<>>
  /\ matched = {}
  /\ groups = <<>>
  /\ adjacent = FALSE
  /\ draws = 0
  /\ NotMounted

\* Coordinates on the board and one step outside it.
Coordinates == {Pos(r, c) : r \in -1 .. GridSize, c \in -1 .. GridSize}

CheckAdjacent ==
  /\ pc = "rest"
  /\ \E pos1 \in Coordinates, pos2 \in Coordinates :
       /\ adjacent' = AreAdjacent(pos1, pos2)
       /\ calls' = Logged(Call("areAdjacent", pos1, pos2, {}))
  /\ pc' = "adjacency"
  /\ UNCHANGED <<heap, board, matched, groups, draws>>
  /\ UNCHANGED gameVars

\* swapPieces on any two cells, adjacent or not, distinct or not.
SwapAny == SwapCall(Cells(GridSize) \X Cells(GridSize), "rest", "swapped")

\* swapPieces called again with the pair of the call before.
SwapBack ==
  SwapCall({<<Last(calls).pos1, Last(calls).pos2>>}, "swapped", "reverted")

\* The cells of one column, or of one row, in any combination.
LineCellSets ==
  UNION {SUBSET {Pos(r, c) : r \in Rows(GridSize)} : c \in Rows(GridSize)}
    \cup UNION {SUBSET {Pos(r, c) : c \in Rows(GridSize)} : r \in Rows(GridSize)}

\* An id no piece of the grid carries.
AbsentId == <<-1, -1, 0, 0>>

\* removeMatchedAndApplyGravity with the ids of any such cells, with or
\* without an id that is not in the grid.
ResolveAny ==
  /\ pc = "rest"
  /\ \E cells \in LineCellSets, others \in {{}, {AbsentId}} :
       LET ids == {IdAt(heap, board, p.row, p.col) : p \in cells} \cup others
       IN  \E tape \in Tapes(RefillCount(heap, board, ids), MaxDraws - draws) :
             LET st == RemoveMatchedAndApplyGravity(heap, board, ids,
                                                    Stamped(heap, tape))
             IN  /\ heap' = st.heap
                 /\ board' = st.board
                 /\ draws' = draws + NonZero(tape)
                 /\ calls' = Logged(Call("removeMatchedAndApplyGravity",
                                         NoPos, NoPos, ids))
  /\ pc' = "resolved"
  /\ UNCHANGED <<matched, groups, adjacent>>
  /\ UNCHANGED gameVars

CallsNext ==
  \/ CheckAdjacent
  \/ SwapAny
  \/ SwapBack
  \/ ResolveAny

SpecCalls == CallsInit /\ [][CallsNext]_vars

----------------------------------------------------------------------------
(* The Game component (pages/Game.tsx) and the swipe handler of GameBoard.  *)
(*                                                                          *)
(* gameState is `game` together with `board`; the refs pendingSwapRef and   *)
(* comboCountRef are fields of `game`.  A handler or timeout callback runs  *)
(* to its end, React applies the state updates it queued and renders, and   *)
(* the effects whose dependencies changed run their cleanup and run again:  *)
(* all of that is one step.  `timers.pending` holds the timeouts that are   *)
(* set, in the order they were set.  Time is not measured; what is kept of  *)
(* it is that a timeout fires before every timeout set after it with the    *)
(* same or a longer delay.  The interval of the timer effect is one of      *)
(* them, set again each time it ticks: every timeout pending at one tick    *)
(* fires before the next.  Where `timers.timed` is set, time is measured:   *)
(* the `delay` of a pending timeout is the time left until it fires, the    *)
(* timeout with the least time left fires first and the time it had left    *)
(* has then passed for the others.                                          *)

\* Seconds on the clock, accepted swaps and target score the model plays with.
MaxTime == 2

MaxMoves == 1

MaxTarget == 300

\* getLevelConfig scaled to the model: grid, clock and target are capped.
LevelConfig(level) ==
  LET config == GetLevelConfig(level)
  IN  [config EXCEPT !.gridSize = Min(@, GridSize),
                     !.timeLimit = Min(@, MaxTime),
                     !.targetScore = Min(@, MaxTarget)]

\* null, and a reference that is not null
Null == <<>>

Ref(x) == <<x>>

Deref(r) == r[1]

\* The cells the player clicks: two neighbours in a row, and the cell below
\* the second, which is diagonal to the first.
ClickCells == {Pos(1, 1), Pos(1, 2), Pos(2, 2)}

\* The cell the player starts a swipe on: in the bottom row, so that a swipe
\* downwards leaves the board.
SwipeCells == {Pos(GridSize - 1, 2)}

Directions == {"up", "down", "left", "right"}

\* The delay, in milliseconds, of each kind of timeout.
Delay(kind) ==
  CASE kind = "reset" -> 150
    [] kind = "matchCheck" -> 200
    [] kind = "removal" -> 350
    [] kind = "revert" -> 500
    [] kind = "tick" -> 1000

Timeout(kind) == [kind |-> kind, delay |-> Delay(kind)]

\* clearTimeout of the timeout of that kind an effect had set, if it is
\* still pending.
Clear(pending, kind) == SelectSeq(pending, LAMBDA timeout : timeout.kind # kind)

\* pending[i] is next to fire among the timeouts set before it.
MayFire(pending, i) ==
  \A j \in 1 .. (i - 1) : pending[j].delay > pending[i].delay

\* The timeouts of that kind that may fire now.
Due(kind) ==
  {i \in DOMAIN timers.pending :
     /\ timers.pending[i].kind = kind
     /\ MayFire(timers.pending, i)
     /\ timers.timed =>
          \A j \in DOMAIN timers.pending :
            timers.pending[j].delay >= timers.pending[i].delay}

\* pending without its i-th timeout, which fires.
Fired(pending, i) ==
  SubSeq(pending, 1, i - 1) \o SubSeq(pending, i + 1, Len(pending))

\* The pending timeouts after `elapsed` milliseconds.
Later(pending, elapsed) ==
  [j \in DOMAIN pending |-> [pending[j] EXCEPT !.delay = @ - elapsed]]

\* The pending timeouts of t once its i-th timeout has fired.
Fire(t, i) ==
  IF t.timed
  THEN Fired(Later(t.pending, t.pending[i].delay), i)
  ELSE Fired(t.pending, i)

\* The timer effect, the match-check effect and the removal effect after a
\* render, in the order the component declares them: an effect runs again
\* (its cleanup clearing what it had set) when one of its dependencies is not
\* what it was.  The dependencies are gameOver and levelComplete for the
\* first, board and isAnimating for the second, isAnimating for the third.
RunEffects(old, new, boardChanged, t) ==
  LET afterTimer ==
        IF old.gameOver # new.gameOver \/ old.levelComplete # new.levelComplete
        THEN IF ~new.gameOver /\ ~new.levelComplete
             THEN Append(Clear(t.pending, "tick"), Timeout("tick"))
             ELSE Clear(t.pending, "tick")
        ELSE t.pending
      afterMatchCheck ==
        IF boardChanged \/ old.isAnimating # new.isAnimating
        THEN IF ~new.isAnimating /\ ~new.gameOver /\ ~new.levelComplete
             THEN Append(Clear(afterTimer, "matchCheck"), Timeout("matchCheck"))
             ELSE Clear(afterTimer, "matchCheck")
        ELSE afterTimer
      afterRemoval ==
        IF old.isAnimating # new.isAnimating
        THEN IF new.isAnimating /\ new.matchedPieces # {}
             THEN Append(Clear(afterMatchCheck, "removal"), Timeout("removal"))
             ELSE Clear(afterMatchCheck, "removal")
        ELSE afterMatchCheck
  IN  [t EXCEPT !.pending = afterRemoval]

\* The first render with a gameState: the "Initialize game" effect for level
\* 1 has run, the timer effect has set its interval and the match-check
\* effect its timeout.  `timed` says whether time is measured.
Mount(timed) ==
  /\ \E tape \in Tapes(GridSize * GridSize, 0) :
       LET config == LevelConfig(1)
           st == InitializeBoard(<<>>, config.gridSize, Stamped(<<>>, tape))
       IN  /\ heap = st.heap
           /\ board = st.board
           /\ game = [mounted |-> TRUE,
                      score |-> 0,
                      lives |-> config.initialLives,
                      timeRemaining |-> config.timeLimit,
                      level |-> 1,
                      moves |-> 0,
                      selectedPiece |-> Null,
                      isAnimating |-> FALSE,
                      gameOver |-> FALSE,
                      levelComplete |-> FALSE,
                      matchedPieces |-> {},
                      pendingSwapRef |-> Null,
                      comboCountRef |-> 0]
  /\ timers = [mounted |-> TRUE,
               timed |-> timed,
               pending |-> <<Timeout("tick"), Timeout("matchCheck")>>]
  /\ event = [name |-> "mount"]
  /\ pc = "game"
  /\ calls = <<>>
  /\ matched = {}
  /\ groups = <<>>
  /\ adjacent = FALSE
  /\ draws = 0

GameInit == Mount(FALSE)

\* The callback of the setInterval of the timer effect.
Tick ==
  /\ \E i \in Due("tick") :
     LET newTimeRemaining == game.timeRemaining - 1
     IN  /\ game' = IF newTimeRemaining <= 0
                    THEN [game EXCEPT !.timeRemaining = 0, !.gameOver = TRUE]
                    ELSE [game EXCEPT !.timeRemaining = newTimeRemaining]
         /\ timers' = RunEffects(game, game', FALSE,
                         [timers EXCEPT !.pending = Append(Fire(timers, i), Timeout("tick"))])
  /\ event' = [name |-> "tick"]
  /\ UNCHANGED <<heap, board, pc, calls, matched, groups, adjacent, draws>>

\* What handlePieceClick and handleSwap share from "Store the original board"
\* on: the ref is set, the pieces are swapped, the state is updated and the
\* timeout that resets isAnimating is set.
AcceptSwap(pos1, pos2) ==
  LET st == SwapPieces(heap, board, pos1, pos2)
  IN  /\ heap' = st.heap
      /\ board' = st.board
      /\ game' = [game EXCEPT
                    !.pendingSwapRef =
                       Ref([pos1 |-> pos1, pos2 |-> pos2, originalBoard |-> board]),
                    !.selectedPiece = Null,
                    !.moves = @ + 1,
                    !.isAnimating = TRUE]
      /\ timers' = RunEffects(game, game', TRUE,
                              [timers EXCEPT !.pending = Append(@, Timeout("reset"))])
      /\ calls' = Logged(Call("swapPieces", pos1, pos2, {}))

\* The handler returns at its first line.
Ignored == game.isAnimating \/ game.gameOver \/ game.levelComplete

\* handlePieceClick(row, col); the player makes at most MaxMoves swaps.
HandlePieceClick ==
  /\ \E pos \in ClickCells :
       /\ event' = [name |-> "click", pos |-> pos, selected |-> game.selectedPiece]
       /\ IF Ignored
          THEN UNCHANGED <<heap, board, game, timers, calls>>
          ELSE IF game.selectedPiece = Null
          THEN /\ game' = [game EXCEPT !.selectedPiece = Ref(pos)]
               /\ UNCHANGED <<heap, board, timers, calls>>
          ELSE IF Deref(game.selectedPiece) = pos
          THEN /\ game' = [game EXCEPT !.selectedPiece = Null]
               /\ UNCHANGED <<heap, board, timers, calls>>
          ELSE IF AreAdjacent(Deref(game.selectedPiece), pos)
          THEN /\ game.moves < MaxMoves
               /\ AcceptSwap(Deref(game.selectedPiece), pos)
          ELSE /\ game' = [game EXCEPT !.selectedPiece = Ref(pos)]
               /\ UNCHANGED <<heap, board, timers, calls>>
  /\ UNCHANGED <<pc, matched, groups, adjacent, draws>>

\* A swipe that steps along both axes at once.
SwipeTargetBothAxes(from, direction) ==
  CASE direction = "up" -> Pos(from.row - 1, from.col - 1)
    [] direction = "down" -> Pos(from.row + 1, from.col + 1)
    [] direction = "left" -> Pos(from.row + 1, from.col - 1)
    [] direction = "right" -> Pos(from.row - 1, from.col + 1)

\* The cell a swipe from `from` ends on: one step along the dominant axis.
SwipeTarget(from, direction) ==
  CASE direction = "up" -> Pos(from.row - 1, from.col)
    [] direction = "down" -> Pos(from.row + 1, from.col)
    [] direction = "left" -> Pos(from.row, from.col - 1)
    [] direction = "right" -> Pos(from.row, from.col + 1)

\* GameBoard.handleDragEnd for a swipe that is long enough, and the
\* handleSwap(from, to) it calls when the target cell is on the board.
HandleSwipe ==
  /\ \E from \in SwipeCells, direction \in Directions :
       LET to == SwipeTarget(from, direction)
       IN  /\ event' = [name |-> "swipe", pos |-> from, to |-> to]
           /\ IF game.isAnimating \/ to \notin Cells(BoardSize(board)) \/ Ignored
              THEN UNCHANGED <<heap, board, game, timers, calls>>
              ELSE /\ game.moves < MaxMoves
                   /\ AcceptSwap(from, to)
  /\ UNCHANGED <<pc, matched, groups, adjacent, draws>>

\* A "Reset animation flag" timeout whose callback leaves isAnimating as it
\* is.
ResetAnimatingKeepsFlag ==
  /\ \E i \in Due("reset") :
       timers' = [timers EXCEPT !.pending = Fire(timers, i)]
  /\ event' = [name |-> "reset"]
  /\ UNCHANGED <<heap, board, game, pc, calls, matched, groups, adjacent, draws>>

\* The timeout set by an accepted swap: "Reset animation flag".
ResetAnimating ==
  /\ \E i \in Due("reset") :
       /\ game' = [game EXCEPT !.isAnimating = FALSE]
       /\ timers' = RunEffects(game, game', FALSE,
                               [timers EXCEPT !.pending = Fire(timers, i)])
  /\ event' = [name |-> "reset"]
  /\ UNCHANGED <<heap, board, pc, calls, matched, groups, adjacent, draws>>

\* The timeout of the match-check effect.  It reads the board of the render
\* that set it, which is the current one: a render with another board would
\* have cleared the timeout.
MatchCheck ==
  /\ \E i \in Due("matchCheck") :
     LET matchedIds == FindMatches(heap, board)
         matchGroups == FindMatchPositions(heap, board)
         found == matchedIds # {} /\ Len(matchGroups) > 0
         pending == IF found THEN Null ELSE game.pendingSwapRef
         invalid == pending # Null /\ matchedIds = {}
     IN  /\ game' =
              IF found
              THEN IF game.isAnimating
                   THEN [game EXCEPT !.pendingSwapRef = Null,
                                     !.comboCountRef = @ + 1]
                   ELSE [game EXCEPT !.pendingSwapRef = Null,
                                     !.comboCountRef = @ + 1,
                                     !.matchedPieces = matchedIds,
                                     !.isAnimating = TRUE]
              ELSE [game EXCEPT !.comboCountRef = 0]
         /\ timers' =
              RunEffects(game, game', FALSE,
                [timers EXCEPT
                   !.pending =
                      IF invalid
                      THEN Append(Fire(timers, i),
                             [kind |-> "revert", delay |-> Delay("revert"),
                              originalBoard |-> Deref(pending).originalBoard])
                      ELSE Fire(timers, i)])
  /\ event' = [name |-> "matchCheck"]
  /\ UNCHANGED <<heap, board, pc, calls, matched, groups, adjacent, draws>>

\* The timeout set by a match check that found an invalid swap: "swap back
\* and decrease lives".
Revert ==
  /\ \E i \in Due("revert") :
     LET originalBoard == timers.pending[i].originalBoard
         newLives == game.lives - 1
     IN  /\ board' = originalBoard
         /\ game' = [game EXCEPT !.lives = newLives,
                                 !.isAnimating = FALSE,
                                 !.gameOver = (newLives <= 0),
                                 !.pendingSwapRef = Null]
         /\ timers' = RunEffects(game, game', TRUE,
                                 [timers EXCEPT !.pending = Fire(timers, i)])
  /\ event' = [name |-> "revert"]
  /\ UNCHANGED <<heap, pc, calls, matched, groups, adjacent, draws>>

\* The timeout of the removal effect; every refill draw falls in the lowest
\* bucket.
Removal ==
  /\ \E i \in Due("removal"),
        tape \in Tapes(RefillCount(heap, board, game.matchedPieces), 0) :
       LET scoreGain == CalculateScore(Cardinality(game.matchedPieces))
           st == RemoveMatchedAndApplyGravity(heap, board, game.matchedPieces,
                                              Stamped(heap, tape))
           newScore == game.score + scoreGain
           config == LevelConfig(game.level)
       IN  /\ heap' = st.heap
           /\ board' = st.board
           /\ game' =
                IF IsLevelComplete(newScore, config.targetScore, game.lives)
                THEN [game EXCEPT !.score = newScore,
                                  !.matchedPieces = {},
                                  !.isAnimating = FALSE,
                                  !.levelComplete = TRUE]
                ELSE [game EXCEPT !.score = newScore,
                                  !.matchedPieces = {},
                                  !.isAnimating = FALSE]
           /\ timers' = RunEffects(game, game', TRUE,
                                   [timers EXCEPT !.pending = Fire(timers, i)])
  /\ event' = [name |-> "removal"]
  /\ UNCHANGED <<pc, calls, matched, groups, adjacent, draws>>

GameNext ==
  \/ Tick
  \/ HandlePieceClick
  \/ HandleSwipe
  \/ ResetAnimating
  \/ MatchCheck
  \/ Revert
  \/ Removal

SpecGame == GameInit /\ [][GameNext]_vars

----------------------------------------------------------------------------
(* removeMatchedAndApplyGravity called when Math.random() may return, for   *)
(* the id of one piece, a value it returned before, and Date.now() may      *)
(* still read what it read when the board was generated                     *)

\* The stamps of n pieces generated at clock reading `now`: each draw is new,
\* except that at most one repeats the draw in the id of a piece of h.
RepeatingStamps(h, n, now) ==
  LET fresh == [i \in 1 .. n |-> [now |-> now, random |-> Len(h) + i]]
  IN  {fresh} \cup {[fresh EXCEPT ![p].random = h[j].id[4]] :
                      p \in 1 .. n, j \in 1 .. Len(h)}

\* Date.now() at the call: the millisecond of initializeBoard or the next.
ClockReadings == {0, 1}

ResolveRepeating ==
  /\ pc = "rest"
  /\ \E cells \in LineCellSets, now \in ClockReadings :
       LET ids == {IdAt(heap, board, p.row, p.col) : p \in cells}
           n == RefillCount(heap, board, ids)
       IN  \E stamps \in RepeatingStamps(heap, n, now) :
             LET tape == [i \in 1 .. n |-> [u |-> 0, stamp |-> stamps[i]]]
                 st == RemoveMatchedAndApplyGravity(heap, board, ids, tape)
             IN  /\ heap' = st.heap
                 /\ board' = st.board
                 /\ calls' = Logged(Call("removeMatchedAndApplyGravity",
                                         NoPos, NoPos, ids))
  /\ pc' = "resolved"
  /\ UNCHANGED <<matched, groups, adjacent, draws>>
  /\ UNCHANGED gameVars

IdsNext == ResolveRepeating

SpecIds == CallsInit /\ [][IdsNext]_vars

----------------------------------------------------------------------------
(* The engine's pure functions, each called once on arguments of any value; *)
(* `event` holds the call and what it returned                              *)

\* Largest matchCount, level and draw count of the calls below.
MaxCount == 12

MaxLevel == 30

\* The order-preserving selections of PIECE_TYPES and every array of at most
\* two types, repeated or not.
ExcludeLists ==
  {SelectSeq(PIECE_TYPES, LAMBDA t : t \in chosen) : chosen \in SUBSET Range(PIECE_TYPES)}
    \cup {<<t1, t2>> : t1 \in Range(PIECE_TYPES), t2 \in Range(PIECE_TYPES)}

\* Values on both sides of every comparison of isLevelComplete and isGameOver.
Scores == {0, 999, 1000, 1001}

Lives == -1 .. 3

Times == -1 .. 2

PureInit == Init

CallGenerateRandomPiece ==
  /\ event.name = "none"
  /\ \E pos \in Cells(GridSize), excludeTypes \in ExcludeLists, u \in 0 .. (RandLevels - 1) :
       event' = [name |-> "generateRandomPiece", row |-> pos.row, col |-> pos.col,
                 excludeTypes |-> excludeTypes,
                 result |-> GenerateRandomPiece(pos.row, pos.col, excludeTypes, u,
                                                [now |-> 0, random |-> 1])]
  /\ UNCHANGED <<heap, board, pc, calls, matched, groups, adjacent, draws, game, timers>>

CallCalculateScore ==
  /\ event.name = "none"
  /\ \E matchCount \in 0 .. MaxCount :
       event' = [name |-> "calculateScore", matchCount |-> matchCount,
                 result |-> CalculateScore(matchCount),
                 next |-> CalculateScore(matchCount + 1)]
  /\ UNCHANGED <<heap, board, pc, calls, matched, groups, adjacent, draws, game, timers>>

CallGetLevelConfig ==
  /\ event.name = "none"
  /\ \E level \in 1 .. MaxLevel :
       event' = [name |-> "getLevelConfig", level |-> level,
                 result |-> GetLevelConfig(level)]
  /\ UNCHANGED <<heap, board, pc, calls, matched, groups, adjacent, draws, game, timers>>

CallIsLevelComplete ==
  /\ event.name = "none"
  /\ \E score \in Scores, targetScore \in Scores, lives \in Lives :
       event' = [name |-> "isLevelComplete", score |-> score,
                 targetScore |-> targetScore, lives |-> lives,
                 result |-> IsLevelComplete(score, targetScore, lives)]
  /\ UNCHANGED <<heap, board, pc, calls, matched, groups, adjacent, draws, game, timers>>

CallIsGameOver ==
  /\ event.name = "none"
  /\ \E lives \in Lives, timeRemaining \in Times :
       event' = [name |-> "isGameOver", lives |-> lives,
                 timeRemaining |-> timeRemaining,
                 result |-> IsGameOver(lives, timeRemaining)]
  /\ UNCHANGED <<heap, board, pc, calls, matched, groups, adjacent, draws, game, timers>>

\* The boards getForbiddenTypes and initializeBoard's checks are called on:
\* one cell more per side than the game's board, so that a cell can have two
\* neighbours on every side.  What the checks of cell (row, col) read are
\* the two cells on each side of it in its row and in its column: those are
\* given every type of RowTypes and of ColumnTypes, the rest of the board is
\* orange.
ForbiddenSide == GridSize + 1

Offsets == {-2, -1, 1, 2}

RowTypes == {"red", "yellow", "blue"}

ColumnTypes == {"blue", "pink", "purple"}

NeighbourhoodType(pos, inRow, inColumn, r, c) ==
  IF r = pos.row /\ (c - pos.col) \in Offsets THEN inRow[c - pos.col]
  ELSE IF c = pos.col /\ (r - pos.row) \in Offsets THEN inColumn[r - pos.row]
  ELSE "orange"

NeighbourhoodHeap(pos, inRow, inColumn) ==
  [k \in 1 .. (ForbiddenSide * ForbiddenSide) |->
     LET r == (k - 1) \div ForbiddenSide
         c == (k - 1) % ForbiddenSide
     IN  [id |-> <<r, c, 0, k>>,
          type |-> NeighbourhoodType(pos, inRow, inColumn, r, c),
          row |-> r, col |-> c]]

NeighbourhoodBoard ==
  [r \in Rows(ForbiddenSide) |-> [c \in Rows(ForbiddenSide) |-> r * ForbiddenSide + c + 1]]

\* The two statements of the refill loop, and the checks and the call of
\* initializeBoard, for one cell of one board; `types` and `initTypes` are
\* the types generateRandomPiece returns over all the draws.
CallGetForbiddenTypes ==
  /\ event.name = "none"
  /\ \E pos \in Cells(ForbiddenSide),
        inRow \in [Offsets -> RowTypes], inColumn \in [Offsets -> ColumnTypes] :
       LET h == NeighbourhoodHeap(pos, inRow, inColumn)
           b == NeighbourhoodBoard
           forbiddenTypes == GetForbiddenTypes(h, b, pos.row, pos.col)
           initForbiddenTypes == InitForbiddenTypes(h, b, pos.row, pos.col)
           Generated(excludeTypes) ==
             {GenerateRandomPiece(pos.row, pos.col, excludeTypes, u,
                                  [now |-> 0, random |-> 0]).type :
                u \in 0 .. (RandLevels - 1)}
       IN  event' = [name |-> "getForbiddenTypes", row |-> pos.row, col |-> pos.col,
                     inRow |-> inRow, inColumn |-> inColumn,
                     forbiddenTypes |-> forbiddenTypes,
                     types |-> Generated(forbiddenTypes),
                     initForbiddenTypes |-> initForbiddenTypes,
                     initTypes |-> Generated(initForbiddenTypes)]
  /\ UNCHANGED <<heap, board, pc, calls, matched, groups, adjacent, draws, game, timers>>

PureNext ==
  \/ CallGenerateRandomPiece
  \/ CallCalculateScore
  \/ CallGetLevelConfig
  \/ CallIsLevelComplete
  \/ CallIsGameOver
  \/ CallGetForbiddenTypes

SpecPure == PureInit /\ [][PureNext]_vars

----------------------------------------------------------------------------
(* What the claims speak of, stated without the detectors *)

\* The last column of the stretch of one type that holds cell (row, c).
RECURSIVE HRunEnd(_, _, _, _)
HRunEnd(h, b, row, c) ==
  IF c + 1 < BoardSize(b) /\ TypeAt(h, b, row, c + 1) = TypeAt(h, b, row, c)
  THEN HRunEnd(h, b, row, c + 1)
  ELSE c

\* The last row of the stretch of one type that holds cell (r, col).
RECURSIVE VRunEnd(_, _, _, _)
VRunEnd(h, b, r, col) ==
  IF r + 1 < BoardSize(b) /\ TypeAt(h, b, r + 1, col) = TypeAt(h, b, r, col)
  THEN VRunEnd(h, b, r + 1, col)
  ELSE r

\* The maximal horizontal runs of 3 or more: row, first and last column.
MaximalHRuns(h, b) ==
  LET n == BoardSize(b)
  IN  {run \in {[row |-> r, from |-> c, to |-> HRunEnd(h, b, r, c)] :
                  r \in Rows(n), c \in Rows(n)} :
         /\ run.to - run.from >= 2
         /\ \/ run.from = 0
            \/ TypeAt(h, b, run.row, run.from - 1) # TypeAt(h, b, run.row, run.from)}

\* The maximal vertical runs of 3 or more: column, first and last row.
MaximalVRuns(h, b) ==
  LET n == BoardSize(b)
  IN  {run \in {[col |-> c, from |-> r, to |-> VRunEnd(h, b, r, c)] :
                  r \in Rows(n), c \in Rows(n)} :
         /\ run.to - run.from >= 2
         /\ \/ run.from = 0
            \/ TypeAt(h, b, run.from - 1, run.col) # TypeAt(h, b, run.from, run.col)}

HRunPositions(run) ==
  [i \in 1 .. (run.to - run.from + 1) |-> Pos(run.row, run.from + i - 1)]

VRunPositions(run) ==
  [i \in 1 .. (run.to - run.from + 1) |-> Pos(run.from + i - 1, run.col)]

\* The position lists of all maximal runs of 3 or more.
RunPositions(h, b) ==
  {HRunPositions(run) : run \in MaximalHRuns(h, b)}
    \cup {VRunPositions(run) : run \in MaximalVRuns(h, b)}

RunCount(h, b) ==
  Cardinality(MaximalHRuns(h, b)) + Cardinality(MaximalVRuns(h, b))

\* The cells that lie in a run of 3 or more.
RunCells(h, b) == UNION {Range(positions) : positions \in RunPositions(h, b)}

IdsOf(h, b, cells) == {IdAt(h, b, p.row, p.col) : p \in cells}

\* No two cells hold pieces with the same id.
DistinctIds(h, b) ==
  Cardinality({IdAt(h, b, p.row, p.col) : p \in Cells(BoardSize(b))})
    = BoardSize(b) * BoardSize(b)

GroupCells(gs) == UNION {Range(gs[i].positions) : i \in DOMAIN gs}

RECURSIVE TotalPieceCount(_)
TotalPieceCount(gs) ==
  IF gs = <<>> THEN 0 ELSE gs[1].pieceCount + TotalPieceCount(Tail(gs))

----------------------------------------------------------------------------
(* Claims *)

\* C1: the grid initializeBoard returns holds no horizontal or vertical run
\* of 3 or more pieces of one type, and findMatches of it is empty, whatever
\* the random draws were.
C1_InitialBoardHasNoMatch ==
  pc = "rest" =>
    /\ RunCount(heap, board) = 0
    /\ FindMatches(heap, board) = {}

\* C1 witness: a generated board in which one cell follows two equal types
\* to its left and another two equal types above it, so both exclusions acted.
C1_Witness ==
  /\ pc = "rest"
  /\ \E p \in Cells(GridSize) :
       p.col >= 2 /\ TypeAt(heap, board, p.row, p.col - 1)
                       = TypeAt(heap, board, p.row, p.col - 2)
  /\ \E p \in Cells(GridSize) :
       p.row >= 2 /\ TypeAt(heap, board, p.row - 1, p.col)
                       = TypeAt(heap, board, p.row - 2, p.col)

\* C3: findMatchPositions returns exactly one group for each maximal run of
\* 3 or more, holding the full extent of the run (a run of 4 or 5 is one
\* group, not several overlapping ones).
C3_OneGroupPerMaximalRun ==
  pc = "checked" =>
    LET runs == RunPositions(heap, board)
    IN  /\ Len(groups) = RunCount(heap, board)
        /\ {groups[i].positions : i \in DOMAIN groups} = runs
        /\ \A i \in DOMAIN groups : groups[i].pieceCount = Len(groups[i].positions)

\* C4: findMatches returns exactly the ids of the pieces that lie in a run
\* of 3 or more, which are the ids of the cells the groups of
\* findMatchPositions cover; the one is empty iff the other is.
C4_MatchedIdsAreRunCells ==
  pc = "checked" /\ DistinctIds(heap, board) =>
    /\ matched = IdsOf(heap, board, RunCells(heap, board))
    /\ matched = IdsOf(heap, board, GroupCells(groups))
    /\ (matched = {}) <=> (groups = <<>>)

\* C4 witness: a match check that found a horizontal and a vertical run.
C4_Witness ==
  /\ pc = "checked"
  /\ DistinctIds(heap, board)
  /\ MaximalHRuns(heap, board) # {}
  /\ MaximalVRuns(heap, board) # {}

AllRunsOfThree(h, b) == \A positions \in RunPositions(h, b) : Len(positions) = 3

\* One horizontal and one vertical run that share a cell, and no other run.
IsCross(h, b) ==
  /\ Cardinality(MaximalHRuns(h, b)) = 1
  /\ Cardinality(MaximalVRuns(h, b)) = 1
  /\ \E hr \in MaximalHRuns(h, b), vr \in MaximalVRuns(h, b) :
       Range(HRunPositions(hr)) \cap Range(VRunPositions(vr)) # {}

\* C5: on a grid whose maximal runs all have length 3, findMatchPositions
\* returns one group of pieceCount 3 per run and merges none: one horizontal
\* run alone gives its 3 ids and 1 group; a horizontal and a vertical run
\* sharing a cell give 2 groups (pieceCount 6 in total) and 5 ids.
C5_RunsOfThreeAreNotMerged ==
  pc = "checked" =>
    LET hruns == MaximalHRuns(heap, board)
        vruns == MaximalVRuns(heap, board)
        runs == {HRunPositions(run) : run \in hruns}
                  \cup {VRunPositions(run) : run \in vruns}
    IN  ((\A positions \in runs : Len(positions) = 3) /\ DistinctIds(heap, board)) =>
          /\ Len(groups) = Cardinality(hruns) + Cardinality(vruns)
          /\ {groups[i].positions : i \in DOMAIN groups} = runs
          /\ \A i \in DOMAIN groups : groups[i].pieceCount = 3
          /\ (Cardinality(hruns) = 1 /\ vruns = {}) =>
               /\ Len(groups) = 1
               /\ Cardinality(matched) = 3
               /\ matched = IdsOf(heap, board, UNION {Range(positions) : positions \in runs})
          /\ (Cardinality(hruns) = 1 /\ Cardinality(vruns) = 1
                 /\ \E hr \in hruns, vr \in vruns :
                      Range(HRunPositions(hr)) \cap Range(VRunPositions(vr)) # {}) =>
               /\ Len(groups) = 2
               /\ TotalPieceCount(groups) = 6
               /\ Cardinality(matched) = 5

\* C5 witness: a match check on a board whose only runs are a horizontal and
\* a vertical run of 3 that share a cell.
C5_Witness ==
  /\ pc = "checked"
  /\ DistinctIds(heap, board)
  /\ AllRunsOfThree(heap, board)
  /\ IsCross(heap, board)

\* A board with a single horizontal run of 3 and nothing else.
C5_SingleRunReached ==
  /\ pc = "checked"
  /\ AllRunsOfThree(heap, board)
  /\ Cardinality(MaximalHRuns(heap, board)) = 1
  /\ MaximalVRuns(heap, board) = {}

\* The last call was removeMatchedAndApplyGravity(g, findMatches(g)) with a
\* non-empty set.
ResolvedAMatch ==
  /\ calls # <<>>
  /\ Last(calls).op = "removeMatchedAndApplyGravity"
  /\ Last(calls).ids # {}
  /\ Last(calls).ids = FindMatches(Last(calls).heap, Last(calls).board)
  /\ DistinctIds(Last(calls).heap, Last(calls).board)

\* A piece generated by the last call.
Fresh(r, c) == board[r][c] > Len(Last(calls).heap)

ColumnRefs(b, col) == [i \in 1 .. BoardSize(b) |-> b[i - 1][col]]

\* Those of them whose piece's id is not in ids, in the same order.
Survivors(h, b, ids, col) ==
  SelectSeq(ColumnRefs(b, col), LAMBDA ref : h[ref].id \notin ids)

\* C6: removeMatchedAndApplyGravity(g, matchedIds) returns a grid of the
\* size of g in which every column holds, at the bottom, the pieces of that
\* column of g whose id is not in matchedIds, in their order, and above them
\* one generated piece for each piece of the column whose id is in
\* matchedIds; a column without such a piece is unchanged; ids that are not
\* in the grid count for nothing.
C6_ColumnsCompactedAndRefilled ==
  (/\ calls # <<>>
   /\ Last(calls).op = "removeMatchedAndApplyGravity"
   /\ DistinctIds(Last(calls).heap, Last(calls).board)) =>
    LET g == Last(calls).board
        h0 == Last(calls).heap
        ids == Last(calls).ids
        n == BoardSize(g)
    IN  /\ DOMAIN board = Rows(n)
        /\ \A r \in Rows(n) : DOMAIN board[r] = Rows(n)
        /\ \A col \in Rows(n) :
             LET kept == Survivors(h0, g, ids, col)
                 k == Cardinality({r \in Rows(n) : h0[g[r][col]].id \in ids})
             IN  /\ Len(kept) = n - k
                 /\ \A i \in 1 .. Len(kept) :
                      /\ board[k + i - 1][col] = kept[i]
                      /\ heap[kept[i]] = [h0[kept[i]] EXCEPT !.row = k + i - 1]
                 /\ \A r \in 0 .. (k - 1) :
                      /\ board[r][col] > Len(h0)
                      /\ heap[board[r][col]].row = r
                      /\ heap[board[r][col]].col = col
                      /\ heap[board[r][col]].type \in Range(PIECE_TYPES)
                      /\ \A q \in 0 .. (k - 1) :
                           board[q][col] = board[r][col] => q = r
                 /\ k = 0 =>
                      \A r \in Rows(n) :
                        /\ board[r][col] = g[r][col]
                        /\ heap[board[r][col]] = h0[g[r][col]]

\* C6 witness: a call whose ids include one that is not in the grid, after
\* which a piece that stayed has fallen and a piece was generated above it.
C6_Witness ==
  /\ pc = "resolved"
  /\ AbsentId \in Last(calls).ids
  /\ \E p \in Cells(GridSize) :
       LET ref == Last(calls).board[p.row][p.col]
       IN  /\ Last(calls).heap[ref].id \notin Last(calls).ids
           /\ heap[ref].row > p.row
           /\ board[heap[ref].row][p.col] = ref
           /\ board[0][p.col] > Len(Last(calls).heap)

\* C7: swapPieces(swapPieces(g, a, b), a, b) holds in every cell the piece g
\* held there, and the pieces at a and b carry the row and col of a and b.
C7_SwapTwiceRestores ==
  pc = "reverted" =>
    LET g == calls[1].board
        h0 == calls[1].heap
        a == Last(calls).pos1
        b == Last(calls).pos2
    IN  /\ calls[1].op = "swapPieces" /\ calls[1].pos1 = a /\ calls[1].pos2 = b
        /\ \A p \in Cells(GridSize) :
             /\ board[p.row][p.col] = g[p.row][p.col]
             /\ heap[board[p.row][p.col]].id = h0[g[p.row][p.col]].id
        /\ heap[board[a.row][a.col]].row = a.row
        /\ heap[board[a.row][a.col]].col = a.col
        /\ heap[board[b.row][b.col]].row = b.row
        /\ heap[board[b.row][b.col]].col = b.col

\* C7 witness: two distinct cells swapped and swapped again.
C7_Witness ==
  /\ pc = "reverted"
  /\ Last(calls).pos1 # Last(calls).pos2
  /\ calls[1].heap[calls[1].board[Last(calls).pos1.row][Last(calls).pos1.col]].id
       # calls[1].heap[calls[1].board[Last(calls).pos2.row][Last(calls).pos2.col]].id

\* C8: for a # b the grid swapPieces(g, a, b) returns has at a the piece g had
\* at b and at b the piece g had at a, each with the row and col of its new
\* cell and its id and type unchanged, and every other cell holds the piece
\* it held in g, unchanged; that holds for pairs that are not adjacent too.
C8_SwapExchangesTwoCells ==
  (pc = "swapped" /\ Last(calls).pos1 # Last(calls).pos2) =>
    LET g == Last(calls).board
        h0 == Last(calls).heap
        a == Last(calls).pos1
        b == Last(calls).pos2
    IN  /\ board[a.row][a.col] = g[b.row][b.col]
        /\ board[b.row][b.col] = g[a.row][a.col]
        /\ heap[board[a.row][a.col]] =
             [h0[g[b.row][b.col]] EXCEPT !.row = a.row, !.col = a.col]
        /\ heap[board[b.row][b.col]] =
             [h0[g[a.row][a.col]] EXCEPT !.row = b.row, !.col = b.col]
        /\ \A p \in Cells(GridSize) \ {a, b} :
             /\ board[p.row][p.col] = g[p.row][p.col]
             /\ heap[board[p.row][p.col]] = h0[g[p.row][p.col]]

\* C8 witness: a swap of two cells that are not adjacent.
C8_Witness ==
  /\ pc = "swapped"
  /\ Last(calls).pos1 # Last(calls).pos2
  /\ ~AreAdjacent(Last(calls).pos1, Last(calls).pos2)

\* C9: after swapPieces or removeMatchedAndApplyGravity returns, every piece
\* of the grid that was passed in has the id, type, row and col it had
\* before the call.
C9_InputGridUnchanged ==
  (/\ calls # <<>>
   /\ Last(calls).op \in {"swapPieces", "removeMatchedAndApplyGravity"}) =>
    \A p \in Cells(GridSize) :
      heap[Last(calls).board[p.row][p.col]]
        = Last(calls).heap[Last(calls).board[p.row][p.col]]

\* C10: areAdjacent(a, b) = areAdjacent(b, a), and it is true exactly when
\* one of row and col is equal and the other differs by 1; it is false for
\* a = b and for diagonal neighbours.
C10_AdjacencyIsManhattanOne ==
  pc = "adjacency" =>
    LET a == Last(calls).pos1
        b == Last(calls).pos2
        dr == IF a.row >= b.row THEN a.row - b.row ELSE b.row - a.row
        dc == IF a.col >= b.col THEN a.col - b.col ELSE b.col - a.col
    IN  /\ adjacent = AreAdjacent(b, a)
        /\ adjacent <=> (dr + dc = 1)
        /\ a = b => ~adjacent
        /\ (dr = 1 /\ dc = 1) => ~adjacent

\* C10 witness: a pair found adjacent whose second cell is left of the first.
C10_Witness ==
  /\ pc = "adjacency"
  /\ adjacent
  /\ Last(calls).pos2.col = Last(calls).pos1.col - 1

----------------------------------------------------------------------------
(* Claims about the Game component, checked under SpecGame *)

\* How many revert timeouts are pending.
PendingReverts(t) ==
  Cardinality({i \in DOMAIN t.pending : t.pending[i].kind = "revert"})

\* This step is the callback of a revert timeout.
RevertStep == PendingReverts(timers') < PendingReverts(timers)

\* C11: when an accepted swap of two adjacent cells finds no match at the
\* match check that follows, the revert puts back the board of before the
\* swap (the same piece in every cell, with the row and col it had then),
\* takes exactly one life, and sets gameOver exactly when no life is left.
C11_InvalidSwapIsReverted ==
  [][RevertStep =>
       /\ \E k \in DOMAIN calls :
            /\ calls[k].op = "swapPieces"
            /\ board' = calls[k].board
            /\ \A p \in Cells(GridSize) :
                 LET before == calls[k].heap[calls[k].board[p.row][p.col]]
                     after == heap'[board'[p.row][p.col]]
                 IN  after.row = before.row /\ after.col = before.col
       /\ game'.lives = game.lives - 1
       /\ game'.gameOver = (game'.lives = 0)]_vars

\* The board is at rest: nothing is animating or matched, the board holds no
\* run, no swap awaits its verdict and no timeout but the interval and a
\* match check is pending.
AtRest ==
  /\ ~game.isAnimating
  /\ game.matchedPieces = {}
  /\ game.pendingSwapRef = Null
  /\ FindMatches(heap, board) = {}
  /\ \A i \in DOMAIN timers.pending :
       timers.pending[i].kind \in {"tick", "matchCheck"}

\* A swap was accepted and the board is not back at rest.
InFlight == game.moves > 0 /\ ~AtRest

\* C12: from the moment a swap is accepted until the board is back at rest,
\* handlePieceClick and handleSwap change no state.
C12_InputsIgnoredWhileInFlight ==
  [][(InFlight /\ event'.name \in {"click", "swipe"})
       => UNCHANGED <<heap, board, game, timers>>]_vars

\* C13: once gameOver is true it stays true, and once levelComplete is true
\* it stays true, under every timer tick and every pending callback.
C13_TerminalStatesStay ==
  [][/\ game.gameOver => game'.gameOver
     /\ game.levelComplete => game'.levelComplete]_vars

\* C14: handlePieceClick, when the game is not animating and not terminal:
\* with no selection it selects the clicked cell; on the selected cell it
\* clears the selection; on a cell that is not next to the selected one it
\* selects the clicked cell instead; in all three cases board, moves, lives,
\* score and isAnimating stay as they are.
C14_ClickSelectsWithoutSwapping ==
  [][(event'.name = "click" /\ ~Ignored) =>
       LET pos == event'.pos
           none == game.selectedPiece = Null
           same == ~none /\ Deref(game.selectedPiece) = pos
           apart == /\ ~none
                    /\ Abs(Deref(game.selectedPiece).row - pos.row)
                         + Abs(Deref(game.selectedPiece).col - pos.col) > 1
       IN  /\ none => game'.selectedPiece = Ref(pos)
           /\ same => game'.selectedPiece = Null
           /\ apart => game'.selectedPiece = Ref(pos)
           /\ (none \/ same \/ apart) =>
                /\ board' = board
                /\ heap' = heap
                /\ game'.moves = game.moves
                /\ game'.lives = game.lives
                /\ game'.score = game.score
                /\ game'.isAnimating = game.isAnimating]_vars

\* A click on a cell diagonal to the selected one has replaced the selection.
C14_Witness ==
  /\ event.name = "click"
  /\ event.selected = Ref(Pos(1, 1))
  /\ event.pos = Pos(2, 2)
  /\ game.selectedPiece = Ref(Pos(2, 2))
  /\ game.moves = 0

----------------------------------------------------------------------------
(* Claims about the pure functions, checked under SpecPure *)

\* C16: generateRandomPiece(row, col, excludeTypes) returns a piece at
\* (row, col) whose type is one of the six; the type is outside excludeTypes
\* unless excludeTypes holds all six types, and then a piece is returned all
\* the same.
C16_GeneratedPieceAvoidsExcluded ==
  event.name = "generateRandomPiece" =>
    /\ event.result.row = event.row
    /\ event.result.col = event.col
    /\ event.result.type \in Range(PIECE_TYPES)
    /\ Range(PIECE_TYPES) \ Range(event.excludeTypes) # {}
         => event.result.type \notin Range(event.excludeTypes)

\* A call whose excludeTypes holds all six types returned a piece.
C16_Witness ==
  /\ event.name = "generateRandomPiece"
  /\ Range(event.excludeTypes) = Range(PIECE_TYPES)
  /\ event.result.type = "orange"

\* C17: calculateScore(n) = floor((60 + 30n) * m) for n >= 1, m = 1 up to
\* n = 3 and 1 + (n - 3)/2 above; calculateScore(3) = 150,
\* calculateScore(4) = 270, calculateScore(6) = 600.  (60 + 30n)(n - 1) is
\* even, so above 3 the floor is 15 (n + 2)(n - 1).
C17_ScoreFormula ==
  (event.name = "calculateScore" /\ event.matchCount >= 1) =>
    LET n == event.matchCount
    IN  /\ n <= 3 => event.result = 60 + 30 * n
        /\ n > 3 => event.result = 15 * (n + 2) * (n - 1)
        /\ n = 3 => event.result = 150
        /\ n = 4 => event.result = 270
        /\ n = 6 => event.result = 600

\* calculateScore was called with a match of six pieces.
C17_Witness ==
  /\ event.name = "calculateScore"
  /\ event.matchCount = 6
  /\ event.result = 600

\* C18: calculateScore(n + 1) > calculateScore(n) for every n >= 1.
C18_ScoreStrictlyIncreasing ==
  (event.name = "calculateScore" /\ event.matchCount >= 1) =>
    event.next > event.result

\* calculateScore was called across the step from three pieces to four.
C18_Witness ==
  /\ event.name = "calculateScore"
  /\ event.matchCount = 3
  /\ event.next = 270

\* C19: getLevelConfig(level), level >= 1: gridSize is 7, 8, 9 for levels
\* 1..2, 3..5, 6..8 and 10 from level 9 on; timeLimit falls by 3 per level
\* from 120 and stays at 45 once it would drop below; targetScore is
\* 1000 + 500 (level - 1); initialLives is 3; level 1 gives (7, 120, 1000, 3)
\* and level 10 gives gridSize 10, timeLimit 93, targetScore 5500.
C19_LevelConfig ==
  event.name = "getLevelConfig" =>
    LET level == event.level
        config == event.result
    IN  /\ config.gridSize \in 7 .. 10
        /\ level >= 9 => config.gridSize = 10
        /\ level \in 1 .. 2 => config.gridSize = 7
        /\ level \in 3 .. 5 => config.gridSize = 8
        /\ level \in 6 .. 8 => config.gridSize = 9
        /\ config.timeLimit >= 45
        /\ level <= 26 => config.timeLimit = 123 - 3 * level
        /\ level > 26 => config.timeLimit = 45
        /\ config.targetScore = 500 * level + 500
        /\ config.initialLives = 3
        /\ level = 1 => /\ config.gridSize = 7
                        /\ config.timeLimit = 120
                        /\ config.targetScore = 1000
        /\ level = 10 => /\ config.gridSize = 10
                         /\ config.timeLimit = 93
                         /\ config.targetScore = 5500

\* getLevelConfig was called for a level whose uncapped grid would exceed 10.
C19_Witness ==
  /\ event.name = "getLevelConfig"
  /\ event.level = 12
  /\ event.result.gridSize = 10

\* C20: isLevelComplete(score, target, lives) is true exactly when the score
\* is not below the target and a life is left; isGameOver(lives,
\* timeRemaining) is true exactly when no life or no time is left;
\* isGameOver(0, t), isGameOver(1, 0), not isGameOver(1, 1),
\* not isLevelComplete(1000, 1000, 0).
C20_LevelCompleteAndGameOver ==
  /\ event.name = "isLevelComplete" =>
       /\ event.result = TRUE <=> ~(event.score < event.targetScore) /\ event.lives >= 1
       /\ (event.score = 1000 /\ event.targetScore = 1000 /\ event.lives = 0)
            => event.result = FALSE
       /\ (event.score = 999 /\ event.targetScore = 1000 /\ event.lives = 3)
            => event.result = FALSE
       /\ (event.score = 1000 /\ event.targetScore = 1000 /\ event.lives = 1)
            => event.result = TRUE
  /\ event.name = "isGameOver" =>
       /\ event.result = FALSE <=> event.lives >= 1 /\ event.timeRemaining >= 1
       /\ event.lives = 0 => event.result = TRUE
       /\ (event.lives = 1 /\ event.timeRemaining = 0) => event.result = TRUE
       /\ (event.lives = 1 /\ event.timeRemaining = 1) => event.result = FALSE

\* isLevelComplete was called with the target reached and no life left.
C20_Witness ==
  /\ event.name = "isLevelComplete"
  /\ event.score = 1000
  /\ event.targetScore = 1000
  /\ event.lives = 0
  /\ event.result = FALSE

----------------------------------------------------------------------------
(* Claim about piece ids, checked under SpecIds *)

\* C15: after any sequence of initializeBoard, swapPieces and
\* removeMatchedAndApplyGravity calls every cell of the grid holds exactly
\* one piece and no two pieces of the grid have the same id, a generated
\* piece and an older piece created at the same (row, col) included.
C15_EveryCellOnePieceIdsDistinct ==
  /\ \A p \in Cells(GridSize) : board[p.row][p.col] \in 1 .. Len(heap)
  /\ DistinctIds(heap, board)

----------------------------------------------------------------------------
(* Claims about the pieces' positions, checked under SpecGame *)

\* The piece held by every cell of the board has that cell's coordinates in
\* its row and col fields.
PositionsAgree(h, b) ==
  \A p \in Cells(BoardSize(b)) :
    h[b[p.row][p.col]].row = p.row /\ h[b[p.row][p.col]].col = p.col

\* C21: in every board the Game component holds while it is not animating,
\* the board installed by the revert of an invalid swap included, every
\* piece's row and col are the coordinates of the cell that holds it.
C21_PiecesKnowTheirCell ==
  (game.mounted /\ ~game.isAnimating) => PositionsAgree(heap, board)

----------------------------------------------------------------------------
(* Claim about the arguments of swapPieces, checked under SpecGame *)

\* C24: every call of swapPieces the Game component makes, from
\* handlePieceClick as from handleSwap after a swipe, is given two cells of
\* the board that are one step apart along a row or a column.
C24_SwapsOnlyAdjacentCells ==
  \A k \in DOMAIN calls :
    calls[k].op = "swapPieces" =>
      /\ calls[k].pos1 \in Cells(BoardSize(calls[k].board))
      /\ calls[k].pos2 \in Cells(BoardSize(calls[k].board))
      /\ Abs(calls[k].pos1.row - calls[k].pos2.row)
           + Abs(calls[k].pos1.col - calls[k].pos2.col) = 1

\* A second click on the cell below the selected one has swapped the two.
C24_Witness ==
  /\ event.name = "click"
  /\ event.selected = Ref(Pos(1, 2))
  /\ event.pos = Pos(2, 2)
  /\ calls # <<>>
  /\ Last(calls).op = "swapPieces"
  /\ Last(calls).pos1 = Pos(1, 2)
  /\ Last(calls).pos2 = Pos(2, 2)

\* A swipe to the left has swapped the cell it started on and the cell to
\* its left.
C24_SwipeReached ==
  /\ event.name = "swipe"
  /\ calls # <<>>
  /\ Last(calls).pos1 = event.pos
  /\ Last(calls).pos2 = Pos(event.pos.row, event.pos.col - 1)

----------------------------------------------------------------------------
(* Claim about the forbidden types, checked under SpecPure *)

\* C25: the types the engine forbids for a cell never hold all six: the
\* array initializeBoard builds holds at most 2 distinct types, the array
\* getForbiddenTypes returns holds at most 4 types, each once; so
\* generateRandomPiece, called with either, has a type left to draw from and
\* returns a piece whose type is not forbidden.
C25_ForbiddenNeverAllSix ==
  event.name = "getForbiddenTypes" =>
    /\ Cardinality(Range(event.initForbiddenTypes)) <= 2
    /\ Len(event.forbiddenTypes) <= 4
    /\ Cardinality(Range(event.forbiddenTypes)) = Len(event.forbiddenTypes)
    /\ Range(event.forbiddenTypes) # Range(PIECE_TYPES)
    /\ event.types \cap Range(event.forbiddenTypes) = {}
    /\ event.initTypes \cap Range(event.initForbiddenTypes) = {}
    /\ event.types # {}
    /\ event.initTypes # {}

\* A cell with a pair of one type on each of its four sides: four types are
\* forbidden, two by initializeBoard, and the two types left are generated.
C25_Witness ==
  /\ event.name = "getForbiddenTypes"
  /\ Range(event.forbiddenTypes) = {"red", "yellow", "pink", "purple"}
  /\ Cardinality(Range(event.initForbiddenTypes)) = 2
  /\ event.types = {"blue", "orange"}

----------------------------------------------------------------------------
(* Claims about the terminal flags, checked under SpecGame *)

\* C27: in every state of the Game component gameOver is true exactly when
\* isGameOver(lives, timeRemaining) is, that is when no life or no time is
\* left.
C27_GameOverAgreesWithIsGameOver ==
  game.mounted => (game.gameOver <=> IsGameOver(game.lives, game.timeRemaining))

\* C28: levelComplete and gameOver are never both true, and once gameOver is
\* true neither the score nor the board changes.
C28_NothingAfterGameOver ==
  /\ [](game.mounted => ~(game.levelComplete /\ game.gameOver))
  /\ [][game.gameOver => (game'.score = game.score /\ board' = board)]_vars

----------------------------------------------------------------------------
(* The Game component with its two ways of starting a level again: the      *)
(* "retry" button of both modals and the "next level" button of the         *)
(* level-complete modal.  A modal is open from the render in which its flag  *)
(* becomes true until one of its buttons is pressed; the buttons are        *)
(* pressed here while the flag is still true, and once: pc is "game" in the  *)
(* level instance the component mounted with and "restarted" in the next.   *)

\* What handleRetryLevel sets, and the "Initialize game" effect after
\* setLevel: a generated board and the gameState of a level that begins.
\* The refs pendingSwapRef and comboCountRef are not part of gameState and
\* keep their values; so do the timeouts no effect owns.
StartLevel(level, name) ==
  \E tape \in Tapes(GridSize * GridSize, 0) :
    LET config == LevelConfig(level)
        st == InitializeBoard(heap, config.gridSize, Stamped(heap, tape))
    IN  /\ heap' = st.heap
        /\ board' = st.board
        /\ game' = [game EXCEPT !.score = 0,
                                !.lives = config.initialLives,
                                !.timeRemaining = config.timeLimit,
                                !.level = level,
                                !.moves = 0,
                                !.selectedPiece = Null,
                                !.isAnimating = FALSE,
                                !.gameOver = FALSE,
                                !.levelComplete = FALSE,
                                !.matchedPieces = {}]
        /\ timers' = RunEffects(game, game', TRUE, timers)
        /\ event' = [name |-> name]
        /\ pc' = "restarted"
        /\ UNCHANGED <<calls, matched, groups, adjacent, draws>>

\* handleRetryLevel, from the game-over modal or the level-complete modal.
HandleRetryLevel ==
  /\ pc = "game"
  /\ game.gameOver \/ game.levelComplete
  /\ StartLevel(game.level, "retry")

\* handleNextLevel, from the level-complete modal, and the "Initialize game"
\* effect that runs because level changed.
HandleNextLevel ==
  /\ pc = "game"
  /\ game.levelComplete
  /\ StartLevel(game.level + 1, "nextLevel")

RestartNext ==
  \/ Tick
  \/ HandlePieceClick
  \/ HandleSwipe
  \/ ResetAnimating
  \/ MatchCheck
  \/ Revert
  \/ Removal
  \/ HandleRetryLevel
  \/ HandleNextLevel

SpecRestart == GameInit /\ [][RestartNext]_vars

----------------------------------------------------------------------------
(* Claim about restarts, checked under SpecRestart *)

\* The gameState of a level that begins.
Begins(g, level) ==
  LET config == LevelConfig(level)
  IN  /\ g.level = level
      /\ g.score = 0
      /\ g.lives = config.initialLives
      /\ g.timeRemaining = config.timeLimit
      /\ g.moves = 0
      /\ g.selectedPiece = Null
      /\ ~g.isAnimating
      /\ ~g.gameOver
      /\ ~g.levelComplete
      /\ g.matchedPieces = {}

\* C29: a restart (retry, or a change of level) leaves the game in the
\* initial state of the level, with a generated board of the level's size;
\* and in the level instance it starts, as long as no swap has been made,
\* board, lives, score, isAnimating and levelComplete stay as they are and
\* gameOver changes only at a timer tick: nothing that was scheduled before
\* the restart acts on the new instance.
C29_RestartStartsAfresh ==
  /\ [][event'.name \in {"retry", "nextLevel"} =>
          /\ Begins(game', IF event'.name = "retry" THEN game.level ELSE game.level + 1)
          /\ BoardSize(board') = LevelConfig(game'.level).gridSize
          /\ FindMatches(heap', board') = {}
          /\ PositionsAgree(heap', board')
          /\ \A p \in Cells(BoardSize(board')) :
               board'[p.row][p.col] \notin 1 .. Len(heap)]_vars
  /\ [][(pc = "restarted" /\ pc' = "restarted" /\ game'.moves = 0) =>
          /\ board' = board
          /\ game'.lives = game.lives
          /\ game'.score = game.score
          /\ game'.isAnimating = game.isAnimating
          /\ game'.levelComplete = game.levelComplete
          /\ (game'.gameOver # game.gameOver => event'.name = "tick")]_vars

----------------------------------------------------------------------------
(* The Game component played with swipes only, with time measured: a swipe  *)
(* comes when a timeout has fired or another swipe was made, or up to       *)
(* MaxWaits times WaitUnit milliseconds later                               *)

\* How many swaps the player makes in this way.
MaxSwaps == 4

\* How many steps the player waits at most before a swipe.
MaxWaits == 2

\* The step of the player's waiting, in milliseconds: the largest that
\* divides every delay.
WaitUnit == 50

\* The player lets WaitUnit milliseconds pass, in which no timeout fires,
\* before a swipe the component would accept.
Wait ==
  /\ ~Ignored
  /\ game.moves < MaxSwaps
  /\ event.name = "wait" => event.units < MaxWaits
  /\ \A j \in DOMAIN timers.pending : timers.pending[j].delay > WaitUnit
  /\ timers' = [timers EXCEPT !.pending = Later(@, WaitUnit)]
  /\ event' = [name |-> "wait",
                units |-> IF event.name = "wait" THEN event.units + 1 ELSE 1]
  /\ UNCHANGED <<heap, board, game, pc, calls, matched, groups, adjacent, draws>>

\* handleSwap(from, to) as GameBoard.handleDragEnd calls it, with a target
\* cell on the board.
HandleSwap ==
  /\ \E from \in SwipeCells, direction \in Directions :
       LET to == SwipeTarget(from, direction)
       IN  /\ to \in Cells(BoardSize(board))
           /\ event' = [name |-> "swipe", pos |-> from, to |-> to]
           /\ IF Ignored
              THEN UNCHANGED <<heap, board, game, timers, calls>>
              ELSE /\ game.moves < MaxSwaps
                   /\ AcceptSwap(from, to)
  /\ UNCHANGED <<pc, matched, groups, adjacent, draws>>

SwapsNext ==
  \/ Wait
  \/ Tick
  \/ HandleSwap
  \/ ResetAnimating
  \/ MatchCheck
  \/ Revert
  \/ Removal

SwapsInit == Mount(TRUE)

SpecSwaps == SwapsInit /\ [][SwapsNext]_vars

----------------------------------------------------------------------------
(* Claims about lives, score and the outcome of swaps, checked under        *)
(* SpecSwaps                                                                *)

\* C26: in every state of the Game component lives is between 0 and the
\* level's initialLives and timeRemaining between 0 and the level's
\* timeLimit.
C26_LivesAndTimeInRange ==
  game.mounted =>
    LET config == LevelConfig(game.level)
    IN  /\ game.lives \in 0 .. config.initialLives
        /\ game.timeRemaining \in 0 .. config.timeLimit

\* The timeout of the removal effect is pending.
RemovalPending(t) == \E i \in DOMAIN t.pending : t.pending[i].kind = "removal"

\* C22: a match check that finds matches leaves their ids in matchedPieces
\* with the removal timeout set; the timeout stays set, and matchedPieces as
\* it is, until the removal step; the removal step takes the matched pieces
\* off the board, adds calculateScore(number of matched ids) to the score,
\* empties matchedPieces and sets levelComplete exactly when the score has
\* reached the target with a life left; no other step changes the score,
\* and the score never goes down.
C22_MatchesRemovedAndScoredOnce ==
  [][/\ (event'.name = "matchCheck" /\ FindMatches(heap, board) # {}) =>
          /\ game'.matchedPieces = FindMatches(heap, board)
          /\ RemovalPending(timers')
     /\ (RemovalPending(timers) /\ event'.name # "removal") =>
          /\ RemovalPending(timers')
          /\ game'.matchedPieces = game.matchedPieces
     /\ event'.name = "removal" =>
          /\ game.matchedPieces # {}
          /\ game'.score =
               game.score + CalculateScore(Cardinality(game.matchedPieces))
          /\ game'.matchedPieces = {}
          /\ \A p \in Cells(BoardSize(board')) :
               IdAt(heap', board', p.row, p.col) \notin game.matchedPieces
          /\ game'.levelComplete <=>
               /\ game'.score >= LevelConfig(game.level).targetScore
               /\ game.lives > 0
          /\ ~RemovalPending(timers')
     /\ game'.score # game.score => event'.name = "removal"
     /\ game'.score >= game.score]_vars

\* C30: a swap the component accepts adds exactly 1 to moves and awaits its
\* verdict in pendingSwapRef, which holds no other swap at that moment; the
\* verdict is given once, either by a match check that finds matches and
\* sets the removal step going, or by a revert, which puts back the board of
\* the swap that awaits and takes exactly one life; lives change at no other
\* step, and no swap is dropped from pendingSwapRef in another way.
C30_EverySwapResolvedOnce ==
  [][/\ game'.moves # game.moves =>
          /\ game'.moves = game.moves + 1
          /\ game.pendingSwapRef = Null
          /\ game'.pendingSwapRef # Null
     /\ RevertStep =>
          /\ game'.lives = game.lives - 1
          /\ game.pendingSwapRef # Null
          /\ board' = Deref(game.pendingSwapRef).originalBoard
     /\ game'.lives # game.lives => RevertStep
     /\ (game.pendingSwapRef # Null /\ game'.pendingSwapRef = Null) =>
          \/ RevertStep
          \/ /\ event'.name = "matchCheck"
             /\ FindMatches(heap, board) # {}
             /\ RemovalPending(timers')]_vars

(***************************************************************************)
(* The component under fair timers.  The browser runs the callback of      *)
(* every timeout and interval that stays set: one that is due and is not   *)
(* cleared does fire.  For the match-check and the removal timeout the     *)
(* fair step is told by what `event` records.  Neither is ever due in a    *)
(* state whose event is of its own kind: each effect holds one timeout at  *)
(* most, a match check sets no other match check, and a removal step sets  *)
(* isAnimating to false, on which the cleanup of the removal effect clears *)
(* the timeout.  So Fires(kind) is enabled exactly when the callback is,   *)
(* and a step of the component is a Fires(kind) step that changes `event`  *)
(* exactly when it is a step of that callback.                             *)
(***************************************************************************)
Fires(kind) == Due(kind) # {} /\ event' = [name |-> kind]

SpecGameFair ==
  /\ SpecGame
  /\ WF_vars(Tick)
  /\ WF_vars(ResetAnimating)
  /\ WF_event(Fires("matchCheck"))
  /\ WF_vars(Revert)
  /\ WF_event(Fires("removal"))

====
